---- MODULE Spec2Model ----
(***************************************************************************)
(* Model of src/main.py: ImageProcessor.process_images, the coordinator    *)
(* coroutine, and the process_single_image tasks it gathers chunk by       *)
(* chunk.  The output file is a sequence of parts: a record handed to      *)
(* f.write reaches the file in NParts pieces between open and close.       *)
(* Timestamps and the elapsed time are not modelled.                       *)
(***************************************************************************)
EXTENDS Integers, Sequences, FiniteSets, TLC

\* Bounds of the model.
MaxFiles == 3
MaxWorkers == 2
NParts == 2

VARIABLES
  dirOK,        \* os.listdir(self.image_dir) succeeds
  dir,          \* the directory listing, a sequence of file names
  max_workers,  \* self.max_workers
  file0,        \* content of the output file before the run
  file,         \* content of the output file
  pc,           \* position of process_images
  images,       \* the local variable images
  batches,      \* the local variable batches
  bi,           \* index of the current batch in batches
  results,      \* the local variable results
  ri,           \* index of the current result in results
  wpc,          \* "idle", or "writing" inside a with open(...) block
  appends,      \* open-write-close appends in progress
  tstate,       \* state of the process_single_image task of each name
  payload,      \* base64_image of each task
  tresult,      \* return value of each task
  attempts,     \* how many times process_single_image was started per name
  pbar,         \* the tqdm progress counter
  log,          \* the log lines emitted, as a set
  arg,          \* argument of a function applied on its own
  ret           \* the value it returned

vars == <<dirOK, dir, max_workers, file0, file, pc, images, batches, bi,
          results, ri, wpc, appends, tstate, payload, tresult, attempts,
          pbar, log, arg, ret>>

coordVars == <<images, batches, bi, results, ri>>
taskVars == <<tstate, payload, tresult, attempts>>
envVars == <<dirOK, dir, max_workers, file0, arg, ret>>

----------------------------------------------------------------------------
\* Values

Min(a, b) == IF a < b THEN a ELSE b

Range(s) == {s[k] : k \in 1..Len(s)}

\* File names: a stem (its id) and an extension.
Exts == {"png", "JPG", "txt"}
NoName == [id |-> 0, ext |-> ""]
Name(k, e) == [id |-> k, ext |-> e]

\* Texts a recognition response may carry, as sequences of characters.
Texts == {<<"A", " ", "*", "B", "#">>, <<>>}

\* Records: the None result, and the three kinds of output record.
None == [kind |-> "None", name |-> NoName, text |-> <<>>, count |-> 0]
Header == [kind |-> "header", name |-> NoName, text |-> <<>>, count |-> 0]
ResultRec(n, t) == [kind |-> "result", name |-> n, text |-> t, count |-> 0]
Summary(c) == [kind |-> "summary", name |-> NoName, text |-> <<>>, count |-> c]

\* The parts of a record in the order they reach the file.
Parts(r) == [k \in 1..NParts |-> [rec |-> r, part |-> k]]

\* A complete earlier run left in the output file.
PriorRun == Parts(Header) \o Parts(ResultRec(Name(1, "png"), <<"A">>))
              \o Parts(Summary(1))

LogLine(level, msg, n) == [level |-> level, msg |-> msg, name |-> n]

----------------------------------------------------------------------------
\* Pure functions of the source

\* str.lower() on an extension.
Lower(e) == IF e = "JPG" THEN "jpg" ELSE e

\* f.lower().endswith(('.png', '.jpg', '.jpeg', '.gif'))
IsImage(f) == Lower(f.ext) \in {"png", "jpg", "jpeg", "gif"}

\* str.replace(c, ""), every occurrence of the character c removed
RECURSIVE ReplaceFirst(_, _)
ReplaceFirst(t, c) ==
  IF t = <<>> THEN <<>>
  ELSE IF Head(t) = c THEN Tail(t)
  ELSE <<Head(t)>> \o ReplaceFirst(Tail(t), c)

Replace(t, c) == SelectSeq(t, LAMBDA x : x # c)
\* .replace("*", "").replace("#", "").replace(" ", "")
Clean(t) == Replace(Replace(Replace(t, "*"), "#"), " ")

\* Python's lst[a:b] for 0 <= a <= b.
Slice(lst, a, b) == SubSeq(lst, a + 1, Min(b, Len(lst)))

\* range(0, n, step) has ceil(n / step) elements.
RangeLen(n, step) == (n + step - 1) \div step

chunk_listWhole(lst, chunk_size) ==
  [k \in 1..Min(1, Len(lst)) |-> lst]

chunk_listOverlap(lst, chunk_size) ==
  [k \in 1..RangeLen(Len(lst), chunk_size) |->
     Slice(lst, (k - 1) * chunk_size, (k - 1) * chunk_size + chunk_size + 1)]

chunk_list(lst, chunk_size) ==
  [k \in 1..RangeLen(Len(lst), chunk_size) |->
     Slice(lst, (k - 1) * chunk_size, (k - 1) * chunk_size + chunk_size)]

\* Python floats are IEEE-754 doubles.  A positive double is modelled exactly
\* as [m |-> limbs, s |-> k]: the integer written by the limbs m in base
\* Base, most significant first, divided by 2^k.  Ints stay below 2^14.
Precision == 53
LimbBits == 15
Base == 2^LimbBits

Front(q) == SubSeq(q, 1, Len(q) - 1)
Last(q) == q[Len(q)]

RECURSIVE StripZeros(_)
StripZeros(limbs) ==
  IF limbs # <<>> /\ Head(limbs) = 0 THEN StripZeros(Tail(limbs)) ELSE limbs

RECURSIVE IntToLimbs(_)
IntToLimbs(n) ==
  IF n = 0 THEN <<>> ELSE Append(IntToLimbs(n \div Base), n % Base)

RECURSIVE LimbsToInt(_)
LimbsToInt(limbs) ==
  IF limbs = <<>> THEN 0 ELSE Base * LimbsToInt(Front(limbs)) + Last(limbs)

\* Number of bits of the integer written by limbs, without leading zeros.
BitLength(limbs) ==
  LimbBits * (Len(limbs) - 1)
    + CHOOSE k \in 1..LimbBits : 2^(k - 1) <= Head(limbs) /\ Head(limbs) < 2^k

\* The integer written by limbs, plus one.
RECURSIVE Increment(_)
Increment(limbs) ==
  IF limbs = <<>> THEN <<1>>
  ELSE IF Last(limbs) < Base - 1
    THEN Append(Front(limbs), Last(limbs) + 1)
    ELSE Append(Increment(Front(limbs)), 0)

\* The integer written by limbs, times the int d, plus carry.
RECURSIVE TimesInt(_, _, _)
TimesInt(limbs, d, carry) ==
  IF limbs = <<>> THEN IntToLimbs(carry)
  ELSE Append(TimesInt(Front(limbs), d, (Last(limbs) * d + carry) \div Base),
              (Last(limbs) * d + carry) % Base)

\* Quotient and remainder of the integer written by rem and limbs by the
\* int d.
RECURSIVE DivInt(_, _, _, _)
DivInt(limbs, d, rem, acc) ==
  IF limbs = <<>> THEN [q |-> StripZeros(acc), r |-> rem]
  ELSE DivInt(Tail(limbs), d, (rem * Base + Head(limbs)) % d,
              Append(acc, (rem * Base + Head(limbs)) \div d))

\* The integer written by limbs, divided by the int d and rounded to nearest,
\* ties to even.
RoundedDiv(limbs, d) ==
  LET qr == DivInt(limbs, d, 0, <<>>)
      up == \/ 2 * qr.r > d
            \/ 2 * qr.r = d /\ qr.q # <<>> /\ Last(qr.q) % 2 = 1
  IN  IF up THEN Increment(qr.q) ELSE qr.q

\* a / m for ints 0 < a < m: the quotient rounded to Precision bits
fdiv(a, m) ==
  LET z == CHOOSE k \in 0..(LimbBits - 1) : a * 2^k < m /\ m <= a * 2^(k + 1)
      s == z + Precision
      num == IntToLimbs(a * 2^(s % LimbBits))
               \o [k \in 1..(s \div LimbBits) |-> 0]
  IN  [m |-> RoundedDiv(num, m), s |-> s]

\* d * f for an int d >= 1 and a float f: the product rounded to Precision
\* bits
fmul(d, f) ==
  LET p == StripZeros(TimesInt(f.m, d, 0))
      cut == BitLength(p) - Precision
  IN  IF cut <= 0 THEN [m |-> p, s |-> f.s]
      ELSE [m |-> RoundedDiv(p, 2^cut), s |-> f.s - cut]

\* int(f): the float truncated to an int
ftrunc(f) ==
  LET whole == SubSeq(f.m, 1, Len(f.m) - f.s \div LimbBits)
  IN  LimbsToInt(DivInt(whole, 2^(f.s % LimbBits), 0, <<>>).q)

Max(a, b) == IF a > b THEN a ELSE b

\* optimize_image(self, image_path, max_size=800)
max_size == 800

\* the size the image is saved with: img.size, or the new_size of the resize
new_size(size) ==
  IF Max(size[1], size[2]) > max_size
    THEN LET ratio == fdiv(max_size, Max(size[1], size[2]))
         IN  <<ftrunc(fmul(size[1], ratio)), ftrunc(fmul(size[2], ratio))>>
    ELSE size

\* Python truthiness of a task's return value.
Truthy(r) == r # None

----------------------------------------------------------------------------
\* Initial state

Listings == UNION {[1..n -> Exts] : n \in 0..MaxFiles}

Init ==
  /\ dirOK \in BOOLEAN
  /\ \E l \in Listings :
       dir = [k \in 1..Len(l) |-> Name(k, l[k])]
  /\ (~dirOK => dir = <<>>)
  /\ max_workers \in 1..MaxWorkers
  /\ file0 \in {<<>>, PriorRun}
  /\ file = file0
  /\ pc = "start"
  /\ images = <<>>
  /\ batches = <<>>
  /\ bi = 0
  /\ results = <<>>
  /\ ri = 0
  /\ wpc = "idle"
  /\ appends = {}
  /\ tstate = <<>>
  /\ payload = <<>>
  /\ tresult = <<>>
  /\ attempts = <<>>
  /\ pbar = 0
  /\ log = {}
  /\ arg = <<>>
  /\ ret = <<>>

----------------------------------------------------------------------------
\* process_images: discovery

\* except Exception as e: logging.error(...)
HandleExceptionSilent ==
  /\ pc' = "failed"
  /\ log' = log

HandleException ==
  /\ pc' = "failed"
  /\ log' = log \cup {LogLine("ERROR", "Error during processing", NoName)}

\* if not images: logging.warning(...); return
NoImagesFallThrough ==
  /\ pc' = "header"
  /\ log' = log \cup {LogLine("INFO", "Found images", NoName)}

NoImages ==
  /\ pc' = "empty"
  /\ log' = log \cup {LogLine("WARNING", "No images found", NoName)}

\* images = [f for f in os.listdir(...) if ...], up to the header's open
ListImages ==
  /\ pc = "start"
  /\ IF ~dirOK
       THEN /\ HandleException
            /\ UNCHANGED <<images, taskVars>>
       ELSE LET imgs == SelectSeq(dir, IsImage) IN
            /\ images' = imgs
            /\ tstate' = [n \in Range(imgs) |-> "new"]
            /\ payload' = [n \in Range(imgs) |-> "None"]
            /\ tresult' = [n \in Range(imgs) |-> None]
            /\ attempts' = [n \in Range(imgs) |-> 0]
            /\ IF imgs = <<>>
                 THEN NoImages
                 ELSE /\ pc' = "header"
                      /\ log' = log \cup {LogLine("INFO", "Found images", NoName)}
  /\ UNCHANGED <<envVars, file, batches, bi, results, ri, wpc, appends, pbar>>

----------------------------------------------------------------------------
\* process_images: appends to the output file

\* The record the coordinator is about to append at its position.
CurrentRecordCountOk ==
  CASE pc = "header" -> Header
    [] pc = "write" -> results[ri]
    [] pc = "summary" ->
         Summary(Cardinality({n \in DOMAIN tstate : tstate[n] = "ok"}))

CurrentRecord ==
  CASE pc = "header" -> Header
    [] pc = "write" -> results[ri]
    [] pc = "summary" -> Summary(Len(images))

AtAppend ==
  \/ pc = "header"
  \/ pc = "summary"
  \/ pc = "write" /\ ri <= Len(results) /\ Truthy(results[ri])

\* The statements that follow the with block at each position.
AfterAppend ==
  CASE pc = "header" ->
         /\ batches' = chunk_list(images, max_workers)
         /\ bi' = 1
         /\ pc' = "dispatch"
         /\ UNCHANGED <<ri, log>>
    [] pc = "write" ->
         /\ ri' = ri + 1
         /\ UNCHANGED <<pc, batches, bi, log>>
    [] pc = "summary" ->
         /\ pc' = "done"
         /\ log' = log \cup {LogLine("INFO", "Processing completed", NoName)}
         /\ UNCHANGED <<batches, bi, ri>>

\* open(self.output_file, 'a') raises: the except clause of process_images
OpenAppendFailContinue ==
  /\ AtAppend
  /\ wpc = "idle"
  /\ pc # "summary"
  /\ log' = log \cup {LogLine("ERROR", "Error during processing", NoName)}
  /\ IF pc = "header"
       THEN /\ batches' = chunk_list(images, max_workers)
            /\ bi' = 1
            /\ pc' = "dispatch"
            /\ UNCHANGED ri
       ELSE /\ ri' = ri + 1
            /\ UNCHANGED <<pc, batches, bi>>
  /\ UNCHANGED <<envVars, file, images, results, wpc, appends, taskVars,
                 pbar>>

OpenAppendFail ==
  /\ AtAppend
  /\ wpc = "idle"
  /\ HandleException
  /\ UNCHANGED <<envVars, file, coordVars, wpc, appends, taskVars, pbar>>

\* with open(self.output_file, 'a', encoding='utf-8') as f:
OpenAppendNoWait ==
  /\ AtAppend
  /\ wpc = "idle"
  /\ appends' = appends \cup {[rec |-> CurrentRecord, pos |-> 0]}
  /\ AfterAppend
  /\ UNCHANGED <<envVars, file, images, results, wpc, taskVars, pbar>>

OpenAppend ==
  /\ AtAppend
  /\ wpc = "idle"
  /\ appends' = appends \cup {[rec |-> CurrentRecord, pos |-> 0]}
  /\ wpc' = "writing"
  /\ UNCHANGED <<envVars, file, pc, coordVars, taskVars, pbar, log>>

\* mode 'a': the bytes go to the end of the file
WriteAtTruncate(f, a) ==
  IF a.pos = 0
    THEN <<[rec |-> a.rec, part |-> 1]>>
    ELSE Append(f, [rec |-> a.rec, part |-> a.pos + 1])

WriteAt(f, a) == Append(f, [rec |-> a.rec, part |-> a.pos + 1])

\* f.write(...): one more part of the record reaches the file
WritePart ==
  \E a \in appends :
    /\ a.pos < NParts
    /\ file' = WriteAt(file, a)
    /\ appends' = (appends \ {a}) \cup {[a EXCEPT !.pos = a.pos + 1]}
    /\ UNCHANGED <<envVars, pc, coordVars, wpc, taskVars, pbar, log>>

\* the with block is left once the whole record is written
WriteComplete(a) == a.pos = NParts

\* leaving the with block closes the file; the coroutine goes on
CloseAppend ==
  \E a \in appends :
    /\ wpc = "writing"
    /\ WriteComplete(a)
    /\ appends' = appends \ {a}
    /\ wpc' = "idle"
    /\ AfterAppend
    /\ UNCHANGED <<envVars, file, images, results, taskVars, pbar>>

----------------------------------------------------------------------------
\* process_images: the loop over the batches

\* process_batch: one process_single_image coroutine per name of the batch
DispatchAll ==
  /\ pc = "dispatch"
  /\ bi <= Len(batches)
  /\ tstate' = [n \in DOMAIN tstate |->
                  IF tstate[n] = "new" THEN "pending" ELSE tstate[n]]
  /\ pc' = "gather"
  /\ UNCHANGED <<envVars, file, coordVars, wpc, appends, payload, tresult,
                 attempts, pbar, log>>

Dispatch ==
  /\ pc = "dispatch"
  /\ bi <= Len(batches)
  /\ tstate' = [n \in DOMAIN tstate |->
                  IF n \in Range(batches[bi]) THEN "pending" ELSE tstate[n]]
  /\ pc' = "gather"
  /\ UNCHANGED <<envVars, file, coordVars, wpc, appends, payload, tresult,
                 attempts, pbar, log>>

\* asyncio.gather returns when every task of the batch has returned
GatherReadyFirst(b) == tstate[b[1]] \in {"ok", "failed"}

GatherReadyAllOk(b) == \A k \in 1..Len(b) : tstate[b[k]] = "ok"

GatherReadyAny(b) == \E k \in 1..Len(b) : tstate[b[k]] \in {"ok", "failed"}

GatherReady(b) == \A k \in 1..Len(b) : tstate[b[k]] \in {"ok", "failed"}

\* results = await self.process_batch(batch)
GatherDoneReversed ==
  /\ pc = "gather"
  /\ GatherReady(batches[bi])
  /\ results' = [k \in 1..Len(batches[bi]) |->
                   tresult[batches[bi][Len(batches[bi]) + 1 - k]]]
  /\ ri' = 1
  /\ pc' = "write"
  /\ UNCHANGED <<envVars, file, images, batches, bi, wpc, appends, taskVars,
                 pbar, log>>

GatherDone ==
  /\ pc = "gather"
  /\ GatherReady(batches[bi])
  /\ results' = [k \in 1..Len(batches[bi]) |-> tresult[batches[bi][k]]]
  /\ ri' = 1
  /\ pc' = "write"
  /\ UNCHANGED <<envVars, file, images, batches, bi, wpc, appends, taskVars,
                 pbar, log>>

\* if result: is false for a None result
SkipNone ==
  /\ pc = "write"
  /\ wpc = "idle"
  /\ ri <= Len(results)
  /\ ~Truthy(results[ri])
  /\ ri' = ri + 1
  /\ UNCHANGED <<envVars, file, pc, images, batches, bi, results, wpc,
                 appends, taskVars, pbar, log>>

\* pbar.update(len(batch)), then the next batch or the end of the loop
FinishBatchOne ==
  /\ pc = "write"
  /\ wpc = "idle"
  /\ ri > Len(results)
  /\ pbar' = pbar + 1
  /\ bi' = bi + 1
  /\ pc' = IF bi + 1 <= Len(batches) THEN "dispatch" ELSE "summary"
  /\ UNCHANGED <<envVars, file, images, batches, results, ri, wpc, appends,
                 taskVars, log>>

FinishBatch ==
  /\ pc = "write"
  /\ wpc = "idle"
  /\ ri > Len(results)
  /\ pbar' = pbar + Len(batches[bi])
  /\ bi' = bi + 1
  /\ pc' = IF bi + 1 <= Len(batches) THEN "dispatch" ELSE "summary"
  /\ UNCHANGED <<envVars, file, images, batches, results, ri, wpc, appends,
                 taskVars, log>>

----------------------------------------------------------------------------
\* process_single_image

TaskReturnsNoneCancel(n, msg) ==
  /\ tstate' = [m \in DOMAIN tstate |->
                  IF m = n \/ tstate[m] \in {"pending", "preparing", "requesting"}
                    THEN "failed" ELSE tstate[m]]
  /\ tresult' = [tresult EXCEPT ![n] = None]
  /\ log' = log \cup {LogLine("ERROR", msg, n)}

\* logging.error(...); return None
TaskReturnsNone(n, msg) ==
  /\ tstate' = [tstate EXCEPT ![n] = "failed"]
  /\ tresult' = [tresult EXCEPT ![n] = None]
  /\ log' = log \cup {LogLine("ERROR", msg, n)}

\* the coroutine starts and hands optimize_image to the executor
StartTaskNoPrep(n) ==
  /\ pc = "gather"
  /\ tstate[n] = "pending"
  /\ tstate' = [tstate EXCEPT ![n] = "requesting"]
  /\ attempts' = [attempts EXCEPT ![n] = attempts[n] + 1]
  /\ UNCHANGED <<envVars, file, pc, coordVars, wpc, appends, payload,
                 tresult, pbar, log>>

StartTask(n) ==
  /\ pc = "gather"
  /\ tstate[n] = "pending"
  /\ tstate' = [tstate EXCEPT ![n] = "preparing"]
  /\ attempts' = [attempts EXCEPT ![n] = attempts[n] + 1]
  /\ UNCHANGED <<envVars, file, pc, coordVars, wpc, appends, payload,
                 tresult, pbar, log>>

\* optimize_image returned a payload: the recognition request is sent
PrepareOk(n) ==
  /\ pc = "gather"
  /\ tstate[n] = "preparing"
  /\ payload' = [payload EXCEPT ![n] = "base64"]
  /\ tstate' = [tstate EXCEPT ![n] = "requesting"]
  /\ UNCHANGED <<envVars, file, pc, coordVars, wpc, appends, tresult,
                 attempts, pbar, log>>

\* optimize_image caught an error and returned None: if not base64_image
PrepareNoneSend(n) ==
  /\ pc = "gather"
  /\ tstate[n] = "preparing"
  /\ tstate' = [tstate EXCEPT ![n] = "requesting"]
  /\ log' = log \cup {LogLine("ERROR", "Error optimizing image", n)}
  /\ UNCHANGED <<envVars, file, pc, coordVars, wpc, appends, payload,
                 tresult, attempts, pbar>>

PrepareNone(n) ==
  /\ pc = "gather"
  /\ tstate[n] = "preparing"
  /\ TaskReturnsNone(n, "Error optimizing image")
  /\ UNCHANGED <<envVars, file, pc, coordVars, wpc, appends, payload,
                 attempts, pbar>>

\* run_in_executor raised: the except clause of process_single_image
PrepareRaise(n) ==
  /\ pc = "gather"
  /\ tstate[n] = "preparing"
  /\ TaskReturnsNone(n, "Error processing image")
  /\ UNCHANGED <<envVars, file, pc, coordVars, wpc, appends, payload,
                 attempts, pbar>>

\* the response arrived: clean its text and format the result
RecognizeOk(n) ==
  /\ pc = "gather"
  /\ tstate[n] = "requesting"
  /\ \E t \in Texts :
       tresult' = [tresult EXCEPT ![n] = ResultRec(n, Clean(t))]
  /\ tstate' = [tstate EXCEPT ![n] = "ok"]
  /\ UNCHANGED <<envVars, file, pc, coordVars, wpc, appends, payload,
                 attempts, pbar, log>>

\* the request or the access to the response raised
RecognizeRaise(n) ==
  /\ pc = "gather"
  /\ tstate[n] = "requesting"
  /\ TaskReturnsNone(n, "Error processing image")
  /\ UNCHANGED <<envVars, file, pc, coordVars, wpc, appends, payload,
                 attempts, pbar>>

----------------------------------------------------------------------------
\* Specification

Next ==
  \/ ListImages
  \/ OpenAppendFail
  \/ OpenAppend
  \/ WritePart
  \/ CloseAppend
  \/ Dispatch
  \/ GatherDone
  \/ SkipNone
  \/ FinishBatch
  \/ \E n \in DOMAIN tstate : StartTask(n)
  \/ \E n \in DOMAIN tstate : PrepareOk(n)
  \/ \E n \in DOMAIN tstate : PrepareNone(n)
  \/ \E n \in DOMAIN tstate : PrepareRaise(n)
  \/ \E n \in DOMAIN tstate : RecognizeOk(n)
  \/ \E n \in DOMAIN tstate : RecognizeRaise(n)

Spec == Init /\ [][Next]_vars

----------------------------------------------------------------------------
\* A function of the source applied on its own to one argument

MaxTextLen == 3

Chars == {"A", "*", "#", " "}
Example == <<"A", " ", "*", " ", "B", " ", "#", " ", "C">>
CleanInputs == UNION {[1..n -> Chars] : n \in 0..MaxTextLen} \cup {Example}

\* Nothing of process_images has run.
CallInit(inputs) ==
  /\ arg \in inputs
  /\ ret = <<>>
  /\ pc = "call"
  /\ dirOK = FALSE
  /\ dir = <<>>
  /\ max_workers = 1
  /\ file0 = <<>>
  /\ file = <<>>
  /\ images = <<>>
  /\ batches = <<>>
  /\ bi = 0
  /\ results = <<>>
  /\ ri = 0
  /\ wpc = "idle"
  /\ appends = {}
  /\ tstate = <<>>
  /\ payload = <<>>
  /\ tresult = <<>>
  /\ attempts = <<>>
  /\ pbar = 0
  /\ log = {}

CallReturns(v) ==
  /\ pc = "call"
  /\ ret' = v
  /\ pc' = "return"
  /\ UNCHANGED <<dirOK, dir, max_workers, file0, arg, file, coordVars, wpc,
                 appends, taskVars, pbar, log>>

\* response.choices[0].message.content.replace(...).replace(...).replace(...)
CleanInit == CallInit(CleanInputs)
ApplyClean == CallReturns(Clean(arg))
CleanSpec == CleanInit /\ [][ApplyClean]_vars

\* Widths and heights: around max_size, below it and above it.
DimSpread == 3
Dims == (max_size - DimSpread .. max_size + DimSpread)
          \cup {400, 1000, 1078, 1600, 2400}

\* the resize step of optimize_image
ResizeInit == CallInit(Dims \X Dims)
ApplyResize == CallReturns(new_size(arg))
ResizeSpec == ResizeInit /\ [][ApplyResize]_vars

----------------------------------------------------------------------------
\* The event loop runs every ready coroutine, and every call to the executor
\* and to the recognition service returns or raises.
\* A run whose listing succeeds, on an output file that starts empty.
FairInit == Init /\ dirOK /\ file0 = <<>>
FairSpec == FairInit /\ [][Next]_vars /\ WF_vars(Next)

----------------------------------------------------------------------------
\* Definitions used by the properties

IsPrefix(s, t) == Len(s) <= Len(t) /\ SubSeq(t, 1, Len(s)) = s

\* What this run has appended to the output file.
Added == SubSeq(file, Len(file0) + 1, Len(file))

\* The records this run has started to write, in file order.
FirstParts == SelectSeq(Added, LAMBDA p : p.part = 1)
AddedRecs == [k \in 1..Len(FirstParts) |-> FirstParts[k].rec]

CountKind(kind) == Cardinality({k \in 1..Len(AddedRecs) : AddedRecs[k].kind = kind})
CountRec(r) == Cardinality({k \in 1..Len(AddedRecs) : AddedRecs[k] = r})

Names == DOMAIN tstate
Ok == {n \in Names : tstate[n] = "ok"}
Failed == {n \in Names : tstate[n] = "failed"}
InFlight == {n \in Names : tstate[n] = "requesting"}
Finished == pc \in {"done", "empty", "failed"}

ErrorLogged(n) ==
  \E l \in log : l.level = "ERROR" /\ l.name = n

----------------------------------------------------------------------------
\* Properties

C2_InFlightBound == Cardinality(InFlight) <= max_workers

C2_Witness ==
  /\ max_workers >= 2
  /\ Len(images) > max_workers
  /\ Cardinality(InFlight) = max_workers

\* C3: a step in which one image's task fails leaves the coordinator where
\* it is and leaves every other task's state and result untouched, the failed
\* task returns None, the results gathered for a chunk are the return values
\* of its tasks, and a completed run has attempted every image and written
\* the record of every successful one whatever the failures.
C3_StepContained ==
  \A n \in Names \cap DOMAIN tstate' :
    (tstate[n] # "failed" /\ tstate'[n] = "failed") =>
      /\ pc' = pc
      /\ tresult'[n] = None
      /\ \A m \in Names \ {n} :
           tstate'[m] = tstate[m] /\ tresult'[m] = tresult[m]

C3_ResultsKept ==
  /\ pc = "write" =>
       /\ Len(results) = Len(batches[bi])
       /\ \A k \in 1..Len(results) :
            /\ results[k] = tresult[batches[bi][k]]
            /\ tstate[batches[bi][k]] = "ok" => Truthy(results[k])
  /\ pc = "done" =>
       \A n \in Names :
         /\ attempts[n] = 1
         /\ tstate[n] = "ok" => CountRec(tresult[n]) = 1

C3_FailureContained == [](C3_ResultsKept) /\ [][C3_StepContained]_vars

C3_Witness ==
  /\ pc = "done"
  /\ Len(batches) >= 2
  /\ \E n, m \in Range(batches[1]) :
       /\ tstate[n] = "failed"
       /\ tstate[m] = "ok"
       /\ CountRec(tresult[m]) = 1
  /\ \A n \in Range(batches[2]) : attempts[n] = 1

\* C4: after a completed run over N >= 1 images the run has appended exactly
\* one header, one result block for each successful image and none for a
\* failed one, and one summary, whose image count is N.
C4_Blocks ==
  pc = "done" =>
    /\ Len(images) >= 1
    /\ Cardinality(Ok) + Cardinality(Failed) = Len(images)
    /\ CountKind("header") = 1
    /\ CountKind("result") = Cardinality(Ok)
    /\ \A n \in Ok : CountRec(tresult[n]) = 1
    /\ \A k \in 1..Len(AddedRecs) :
         AddedRecs[k].kind = "result" => AddedRecs[k].name \in Ok
    /\ CountKind("summary") = 1
    /\ CountRec(Summary(Len(images))) = 1
    /\ Len(Added) = NParts * (Cardinality(Ok) + 2)

C4_Witness ==
  /\ pc = "done"
  /\ Cardinality(Ok) >= 1
  /\ Cardinality(Failed) >= 1
  /\ CountRec(Summary(Len(images))) = 1

\* C5: at most one append is in progress at any time, and what the run has
\* appended is a sequence of whole records, each its parts in order and
\* contiguous and no record twice, followed at most by the parts written so
\* far of the one append in progress.
WholeRecords(s) ==
  \A j \in 1..Len(s) :
    /\ s[j].part = ((j - 1) % NParts) + 1
    /\ s[j].rec = s[j - ((j - 1) % NParts)].rec

C5_Exclusive ==
  /\ Cardinality(appends) <= 1
  /\ WholeRecords(Added)
  /\ \A r \in Range(AddedRecs) : CountRec(r) = 1
  /\ IF appends = {}
       THEN Len(Added) % NParts = 0
       ELSE \A a \in appends :
              /\ Len(Added) % NParts = a.pos % NParts
              /\ a.pos > 0 => Added[Len(Added)].rec = a.rec
              /\ a.pos = NParts => Len(Added) > 0

C5_Witness ==
  /\ \E a \in appends : a.rec.kind = "result" /\ a.pos = 1
  /\ CountKind("result") = 2
  /\ Len(Added) = 2 * NParts + 1

\* C6: when listing the input directory fails the run has ended in the
\* except clause with the error logged, the output file is exactly what it
\* was before the run, no append was opened and no image was attempted.
C6_ListingFails ==
  (~dirOK /\ pc # "start") =>
    /\ pc = "failed"
    /\ file = file0
    /\ appends = {}
    /\ Names = {}
    /\ LogLine("ERROR", "Error during processing", NoName) \in log

C6_Witness ==
  /\ ~dirOK
  /\ pc = "failed"
  /\ file0 # <<>>
  /\ file = file0

\* C7: when the listing succeeds and no listed name is an image the run has
\* returned after logging a warning, nothing was written to the output file,
\* no task exists and no recognition request was sent.
C7_NoImages ==
  (dirOK /\ pc # "start" /\ images = <<>>) =>
    /\ pc = "empty"
    /\ LogLine("WARNING", "No images found", NoName) \in log
    /\ file = file0
    /\ appends = {}
    /\ Names = {}
    /\ InFlight = {}
    /\ \A l \in log : l.level # "ERROR"

C7_Witness ==
  /\ pc = "empty"
  /\ Len(dir) = MaxFiles
  /\ file0 # <<>>
  /\ file = file0

\* C8: whenever the summary is about to be written, is being written, is in
\* the file, or completion is logged, every discovered filename has a task
\* that has returned: either with a result, or with None and a logged error.
SummaryStarted ==
  \/ pc \in {"summary", "done"}
  \/ \E a \in appends : a.rec.kind = "summary"
  \/ CountKind("summary") > 0
  \/ LogLine("INFO", "Processing completed", NoName) \in log

C8_AllSettled ==
  SummaryStarted =>
    /\ Names = Range(images)
    /\ \A n \in Names :
         \/ tstate[n] = "ok" /\ Truthy(tresult[n])
         \/ tstate[n] = "failed" /\ ~Truthy(tresult[n]) /\ ErrorLogged(n)

C8_Witness ==
  /\ \E a \in appends : a.rec.kind = "summary" /\ a.pos = 1
  /\ Len(batches) >= 2
  /\ Ok # {}
  /\ Failed # {}

\* C9: for every image, a recognition request is in flight or has returned
\* only if the preparation has produced the payload, and a result block is
\* being written or is in the file only if the recognition has returned that
\* result.
C9_PipelineOrder ==
  /\ \A n \in Names :
       /\ tstate[n] \in {"requesting", "ok"} => payload[n] # "None"
       /\ Truthy(tresult[n]) => tstate[n] = "ok"
  /\ \A a \in appends :
       a.rec.kind = "result" =>
         /\ a.rec.name \in Names
         /\ tstate[a.rec.name] = "ok"
         /\ tresult[a.rec.name] = a.rec
  /\ \A k \in 1..Len(AddedRecs) :
       AddedRecs[k].kind = "result" =>
         /\ AddedRecs[k].name \in Names
         /\ tstate[AddedRecs[k].name] = "ok"
         /\ tresult[AddedRecs[k].name] = AddedRecs[k]

C9_Witness ==
  /\ \E k \in 1..Len(AddedRecs) :
       /\ AddedRecs[k].kind = "result"
       /\ payload[AddedRecs[k].name] = "base64"
  /\ \E n \in Names : tstate[n] = "failed" /\ payload[n] = "None"
  /\ \E n \in Names : tstate[n] = "failed" /\ payload[n] = "base64"

\* C10: the content the output file had before the run is always a prefix
\* of its content, and every step leaves the content of the file a prefix of
\* the new content.
C10_AppendOnly ==
  [](IsPrefix(file0, file)) /\ [][IsPrefix(file, file')]_vars

C10_Witness ==
  /\ pc = "done"
  /\ file0 # <<>>
  /\ Len(file) >= Len(file0) + 3 * NParts
  /\ IsPrefix(file0, file)

\* C11 as stated: a run over a non-empty discovered set ends only at its
\* completion, with every discovered image attempted and the summary written.
C11_Original ==
  (Finished /\ images # <<>>) =>
    /\ pc = "done"
    /\ \A n \in Range(images) : attempts[n] = 1
    /\ CountRec(Summary(Len(images))) = 1

\* C11 amended: a run over a non-empty discovered set eventually ends,
\* either completed, with every discovered image attempted and the summary
\* written, or in the except clause after an append to the output file
\* failed, with the error logged; nothing else ends it.
RunCompleted ==
  /\ pc = "done"
  /\ \A n \in Range(images) : attempts[n] = 1 /\ tstate[n] \in {"ok", "failed"}
  /\ CountRec(Summary(Len(images))) = 1
  /\ appends = {}

RunStoppedByAppend ==
  /\ pc = "failed"
  /\ wpc = "idle"
  /\ appends = {}
  /\ LogLine("ERROR", "Error during processing", NoName) \in log
  /\ \A n \in Names : tstate[n] \in {"new", "ok", "failed"}

C11_Completes ==
  (images # <<>>) ~> (RunCompleted \/ RunStoppedByAppend)

C11_Witness ==
  /\ RunCompleted
  /\ Len(images) = MaxFiles
  /\ Len(batches) >= 2
  /\ Failed # {}

\* C12: the cleaned text holds no '*', '#' or space and is the text with
\* exactly these characters taken out, the others kept in their order; text
\* without them is returned unchanged, cleaning the cleaned text changes
\* nothing, and "A * B # C" is cleaned to "ABC".
Special == {"*", "#", " "}

RECURSIVE Kept(_)
Kept(t) ==
  IF t = <<>> THEN <<>>
  ELSE (IF Head(t) \in Special THEN <<>> ELSE <<Head(t)>>) \o Kept(Tail(t))

C12_Clean ==
  pc = "return" =>
    /\ \A k \in 1..Len(ret) : ret[k] \notin Special
    /\ ret = Kept(arg)
    /\ (\A k \in 1..Len(arg) : arg[k] \notin Special) => ret = arg
    /\ Clean(ret) = ret
    /\ arg = Example => ret = <<"A", "B", "C">>

C12_Witness ==
  /\ pc = "return"
  /\ arg = Example
  /\ ret = <<"A", "B", "C">>

\* C13: a size whose longer dimension is at most 800 is left unchanged; of a
\* larger size the new longer dimension is exactly 800 and the new shorter
\* dimension is within one of the proportionally scaled value.
C13_Resize ==
  pc = "return" =>
    LET long == Max(arg[1], arg[2])
    IN  IF long <= max_size
          THEN ret = arg
          ELSE /\ Max(ret[1], ret[2]) = max_size
               /\ \A k \in 1..2 :
                    /\ ret[k] * long <= arg[k] * max_size
                    /\ arg[k] * max_size < (ret[k] + 1) * long

\* C14: the batches are non-empty consecutive chunks of the discovered list,
\* all but possibly the last of exactly max_workers names and the last of at
\* most max_workers, whose concatenation is the list; and while any task of
\* a chunk exists, every task of every earlier chunk has completed.
RECURSIVE Flatten(_)
Flatten(ss) == IF ss = <<>> THEN <<>> ELSE Head(ss) \o Flatten(Tail(ss))

C14_Chunks ==
  /\ pc \in {"dispatch", "gather", "write", "summary", "done"} => batches # <<>>
  /\ batches # <<>> =>
       /\ \A k \in 1..Len(batches) :
            /\ Len(batches[k]) >= 1
            /\ Len(batches[k]) <= max_workers
            /\ k < Len(batches) => Len(batches[k]) = max_workers
       /\ Flatten(batches) = images
       /\ \A j, k \in 1..Len(batches) :
            (j < k /\ \E n \in Range(batches[k]) : tstate[n] # "new") =>
              \A n \in Range(batches[j]) : tstate[n] \in {"ok", "failed"}
       /\ \A k \in 1..Len(batches) :
            (k > bi) => \A n \in Range(batches[k]) : tstate[n] = "new"

C14_Witness ==
  /\ Len(batches) >= 2
  /\ max_workers >= 2
  /\ Len(batches[Len(batches)]) < max_workers
  /\ pc = "gather"
  /\ \E n \in Range(batches[2]) : tstate[n] = "preparing"

\* C15: an image whose preparation failed has the error logged, no payload,
\* a None result and no block in the file, and its task has ended; the step
\* in which a preparation ends without a payload ends the task with None and
\* a logged error and leaves the coordinator where it is; a task that has
\* failed stays failed, so no request is sent for it later.
PrepareFailed(n) == LogLine("ERROR", "Error optimizing image", n) \in log

C15_State ==
  \A n \in Names :
    PrepareFailed(n) =>
      /\ tstate[n] = "failed"
      /\ payload[n] = "None"
      /\ ~Truthy(tresult[n])
      /\ \A k \in 1..Len(AddedRecs) : AddedRecs[k].name # n
      /\ \A a \in appends : a.rec.name # n

C15_Step ==
  \A n \in Names \cap DOMAIN tstate' :
    /\ (tstate[n] = "preparing" /\ tstate'[n] # "preparing"
          /\ payload'[n] = "None") =>
         /\ tstate'[n] = "failed"
         /\ tresult'[n] = None
         /\ \E l \in log' \ log : l.level = "ERROR" /\ l.name = n
         /\ pc' = pc
    /\ tstate[n] = "failed" => tstate'[n] = "failed" /\ payload'[n] = payload[n]

C15_PrepareFails == [](C15_State) /\ [][C15_Step]_vars

C15_Witness ==
  /\ pc = "done"
  /\ \E n, m \in Names :
       /\ PrepareFailed(n)
       /\ tstate[n] = "failed"
       /\ tstate[m] = "ok"
       /\ CountRec(tresult[m]) = 1

\* C16 as stated: at every point of a run the progress counter equals the
\* number of images whose task has completed.
Completed == Ok \cup Failed

C16_Original == pbar = Cardinality(Completed)

\* C16 amended: progress is reported per completed chunk.  The counter
\* equals the number of images of the chunks whose tasks have all completed
\* and whose results have been written, never exceeds the number of
\* completed images, and equals the number of discovered images once the
\* loop has ended.
C16_PerChunk ==
  /\ pbar <= Cardinality(Completed)
  /\ batches = <<>> => pbar = 0
  /\ batches # <<>> => pbar = Len(Flatten(SubSeq(batches, 1, bi - 1)))
  /\ pc \in {"summary", "done"} =>
       pbar = Len(images) /\ pbar = Cardinality(Completed)

C16_Witness ==
  /\ pc = "gather"
  /\ bi = 2
  /\ pbar = max_workers
  /\ Cardinality(Completed) = pbar + 1

\* C17: what a run appends is in a fixed order: the header first, then
\* result blocks in the order of the discovered list, then the summary last;
\* a completed run has appended the header, the blocks of exactly the
\* successful images in discovery order, and the summary.
Pos(n) == CHOOSE k \in 1..Len(images) : images[k] = n

OkInOrder == SelectSeq(images, LAMBDA n : tstate[n] = "ok")

Expected ==
  <<Header>> \o [k \in 1..Len(OkInOrder) |-> tresult[OkInOrder[k]]]
             \o <<Summary(Len(images))>>

C17_Order ==
  /\ \A k \in 1..Len(AddedRecs) :
       /\ AddedRecs[k].kind = "header" <=> k = 1
       /\ AddedRecs[k].kind = "summary" => k = Len(AddedRecs)
       /\ AddedRecs[k].kind = "result" => AddedRecs[k].name \in Range(images)
  /\ \A j, k \in 1..Len(AddedRecs) :
       (j < k /\ AddedRecs[j].kind = "result" /\ AddedRecs[k].kind = "result")
         => Pos(AddedRecs[j].name) < Pos(AddedRecs[k].name)
  /\ pc = "done" => AddedRecs = Expected

C17_Witness ==
  /\ pc = "done"
  /\ Len(batches) >= 2
  /\ \A n \in Range(batches[1]) : tstate[n] = "ok"
  /\ Len(batches[1]) >= 2
  /\ Cardinality(Ok) = Len(images)
  /\ AddedRecs = Expected

\* C18: while an append to the output file is in progress no image is being
\* prepared and no recognition request is in flight: every task either does
\* not exist yet or has returned; and while a result block is written, every
\* task of its chunk has returned and no task of a later chunk exists.
Working == {n \in Names : tstate[n] \in {"pending", "preparing", "requesting"}}

C18_NoOverlap ==
  (appends # {} \/ wpc = "writing") =>
    /\ Working = {}
    /\ pc \in {"header", "write", "summary"}
    /\ pc = "write" =>
         /\ \A n \in Range(batches[bi]) : tstate[n] \in {"ok", "failed"}
         /\ \A k \in (bi + 1)..Len(batches) :
              \A n \in Range(batches[k]) : tstate[n] = "new"

C18_Witness ==
  /\ \E a \in appends : a.rec.kind = "result" /\ a.pos = 1
  /\ pc = "write"
  /\ bi = 1
  /\ Len(batches) >= 2
  /\ Working = {}

\* C19: once an append to the output file has failed, the error is logged
\* and the run has ended in the except clause of process_images: no append
\* is open, no task is at work, no summary is in the file and the completion
\* message is not logged; and from then on nothing changes, no chunk is
\* dispatched and nothing more is written.
AppendFailed ==
  dirOK /\ LogLine("ERROR", "Error during processing", NoName) \in log

C19_State ==
  AppendFailed =>
    /\ pc = "failed"
    /\ appends = {}
    /\ wpc = "idle"
    /\ Working = {}
    /\ Len(Added) % NParts = 0
    /\ CountKind("summary") = 0
    /\ LogLine("INFO", "Processing completed", NoName) \notin log

C19_Step ==
  pc = "failed" =>
    /\ pc' = "failed"
    /\ file' = file
    /\ log' = log
    /\ tstate' = tstate
    /\ attempts' = attempts
    /\ appends' = appends

C19_AppendFails == [](C19_State) /\ [][C19_Step]_vars

C19_Witness ==
  /\ AppendFailed
  /\ pc = "failed"
  /\ CountKind("result") = 1
  /\ Cardinality(Ok) = 2
  /\ \E n \in Names : tstate[n] = "new"

====
